---- MODULE Spec2Model ----
(***************************************************************************)
(* Model of src/bot.py: the Telegram message handler handle_message and     *)
(* AIBot.get_ai_response, the streaming request to the completion endpoint  *)
(* and the reduction of the streamed lines to one reply text.               *)
(*                                                                          *)
(* Text is a sequence of characters over {"H", "e", " "}.  The three fixed       *)
(* messages of the program are one-element sequences holding the whole      *)
(* literal, so that no accumulated text can be confused with them.          *)
(*                                                                          *)
(* The body of the response is the finite sequence of lines the server      *)
(* sends; pos counts the lines the loop has consumed.                       *)
(*                                                                          *)
(* A raw line of the response body is a record                              *)
(*   [prefix |-> marker, kind |-> payload kind, text |-> Text]              *)
(* prefix is what the line starts with: "data:", ":" (a comment line) or    *)
(* nothing.  kind is what follows the prefix:                               *)
(*   ""             nothing (a blank line)                                  *)
(*   "[DONE]"       the termination sentinel                                *)
(*   "notjson"      text that is not JSON                                   *)
(*   "scalar"       JSON that is not an object, e.g. 5                      *)
(*   "emptychoices" {"choices": []}                                         *)
(*   "nocontent"    {"choices": [{"delta": {}}]}                            *)
(*   "num"          {"choices": [{"delta": {"content": 5}}]}                *)
(*   "zero"         {"choices": [{"delta": {"content": 0}}]}                *)
(*   "str"          {"choices": [{"delta": {"content": text}}]}             *)
(***************************************************************************)
EXTENDS Integers, Sequences, FiniteSets, TLC

VARIABLES pc, update, events, replies, status, body, pos, full_response,
          outcome, ai_response

vars == <<pc, update, events, replies, status, body, pos, full_response,
          outcome, ai_response>>

\* ---- bounds ----
MaxLines == 3

MaxChat == 2

\* ---- program constants ----
HTTP_OK == 200

MSG_HTTP_ERROR == <<"Sorry, I'm having trouble connecting to the AI service.">>

MSG_PLACEHOLDER == <<"I couldn't generate a response.">>

MSG_REQUEST_ERROR == <<"Sorry, I'm having trouble connecting to the AI service.">>

MSG_UNEXPECTED == <<"Sorry, something went wrong while processing your request.">>

intro_value == "data:"

skip_markers == {"[DONE]", ""}

yield_raw_on_error == FALSE

\* ---- inputs ----
Chats == 1..MaxChat

Statuses == {200, 404, 500}

Whitespace == {" "}

Deltas == {<<>>, <<" ">>, <<"H">>, <<"e">>}

NoText == <<>>

Lines ==
    {[prefix |-> "data:", kind |-> k, text |-> NoText] :
        k \in {"[DONE]", "notjson", "scalar", "emptychoices", "nocontent", "num", "zero"}}
    \cup {[prefix |-> "data:", kind |-> "str", text |-> t] : t \in Deltas}
    \cup {[prefix |-> "", kind |-> "", text |-> NoText]}
    \cup {[prefix |-> ":", kind |-> "str", text |-> <<"H">>]}

Bodies == UNION {[1..n -> Lines] : n \in 0..MaxLines}

\* ---- Python values handed from the stream to the loop ----
None == [ty |-> "none", s |-> NoText]

Str(t) == [ty |-> "str", s |-> t]

Num == [ty |-> "num", s |-> NoText]

Zero == [ty |-> "zero", s |-> NoText]

Raw == [ty |-> "str", s |-> <<"?">>]

\* str.strip(): leading and trailing whitespace removed
RECURSIVE lstrip(_)
lstrip(s) ==
    IF s = <<>> THEN <<>>
    ELSE IF Head(s) \in Whitespace THEN lstrip(Tail(s)) ELSE s

RECURSIVE rstrip(_)
rstrip(s) ==
    IF s = <<>> THEN <<>>
    ELSE IF s[Len(s)] \in Whitespace THEN rstrip(SubSeq(s, 1, Len(s) - 1)) ELSE s

strip(s) == rstrip(lstrip(s))

\* a bug: the except clause hands back the chunk itself
extract_content_raw(chunk) ==
    CASE chunk.kind = "scalar" -> Raw
      [] chunk.kind = "emptychoices" -> Raw
      [] chunk.kind = "nocontent" -> None
      [] chunk.kind = "num" -> Num
      [] chunk.kind = "zero" -> Zero
      [] chunk.kind = "str" -> Str(chunk.text)
      [] OTHER -> Raw

\* extract_content(chunk): chunk["choices"][0]["delta"].get("content"),
\* None on any exception
extract_content(chunk) ==
    CASE chunk.kind = "scalar" -> None
      [] chunk.kind = "emptychoices" -> None
      [] chunk.kind = "nocontent" -> None
      [] chunk.kind = "num" -> Num
      [] chunk.kind = "zero" -> Zero
      [] chunk.kind = "str" -> Str(chunk.text)
      [] OTHER -> None

\* the line with the intro marker removed when it starts with it; a line
\* that starts with anything else is left whole, and is then no JSON
payload(line) ==
    IF line.prefix = intro_value \/ line.prefix = ""
    THEN [kind |-> line.kind, text |-> line.text]
    ELSE [kind |-> "notjson", text |-> NoText]

\* sanitize_stream on one raw line: the value it yields, None for no yield
sanitize_line(line) ==
    LET chunk == payload(line) IN
    IF chunk.kind \in skip_markers THEN None
    ELSE IF chunk.kind \in {"[DONE]", "", "notjson"}
         THEN (IF yield_raw_on_error THEN Raw ELSE None)
         ELSE extract_content(chunk)

\* Python truthiness of a yielded value (the num payload is 5)
truthy(v) ==
    CASE v.ty = "none" -> FALSE
      [] v.ty = "zero" -> FALSE
      [] v.ty = "str" -> v.s # <<>>
      [] OTHER -> TRUE

\* a bug: the fragment is put in front of the accumulator
accumulate_front(acc, content) == content.s \o acc

\* full_response += content
accumulate(acc, content) == acc \o content.s

\* a bug: no placeholder for an empty accumulator
final_text_noplaceholder(acc) == strip(acc)

\* full_response.strip() if full_response else "I couldn't generate a response."
final_text(acc) == IF acc # <<>> THEN strip(acc) ELSE MSG_PLACEHOLDER

\* a bug: only server errors are taken for errors
is_error_status_5xx(s) == s >= 500

\* response.status_code != 200
is_error_status(s) == s # HTTP_OK

Event(e) == [ev |-> e, chat |-> update]

Init ==
    /\ pc = "idle"
    /\ update = 0
    /\ events = <<>>
    /\ replies = 0
    /\ status = 0
    /\ body = <<>>
    /\ pos = 0
    /\ full_response = <<>>
    /\ outcome = "none"
    /\ ai_response = <<>>

\* get_ai_response returns msg to handle_message
Return(msg) ==
    /\ pc' = "returned"
    /\ ai_response' = msg
    /\ events' = Append(events, Event("ai_return"))

\* an exception leaves get_ai_response and ends handle_message
Propagate ==
    /\ pc' = "crashed"
    /\ events' = Append(events, Event("ai_raise"))
    /\ UNCHANGED ai_response

\* a bug: the handler answers with the generic message
except_RequestException_generic ==
    Return(<<"Sorry, something went wrong while processing your request.">>)

\* except requests.exceptions.RequestException
except_RequestException == Return(MSG_REQUEST_ERROR)

\* a bug: no handler for other exceptions
except_Exception_missing == Propagate

\* except Exception
except_Exception == Return(MSG_UNEXPECTED)

\* the framework hands a text message of chat c to handle_message
Dispatch(c) ==
    /\ pc = "idle"
    /\ pc' = "start"
    /\ update' = c
    /\ UNCHANGED <<events, replies, status, body, pos, full_response, outcome, ai_response>>

\* await context.bot.send_chat_action(chat_id, action='typing')
SendTyping ==
    /\ pc = "start"
    /\ pc' = "typed"
    /\ events' = Append(events, Event("typing"))
    /\ UNCHANGED <<update, replies, status, body, pos, full_response, outcome, ai_response>>

\* a bug: the AI call is made before the typing action
CallAI_first ==
    /\ pc = "start"
    /\ pc' = "post"
    /\ events' = Append(events, Event("ai_start"))
    /\ UNCHANGED <<update, replies, status, body, pos, full_response, outcome, ai_response>>

\* ai_response = await ai_bot.get_ai_response(user_message): up to requests.post
CallAI ==
    /\ pc = "typed"
    /\ pc' = "post"
    /\ events' = Append(events, Event("ai_start"))
    /\ UNCHANGED <<update, replies, status, body, pos, full_response, outcome, ai_response>>

\* requests.post raises (timeout, connection refused)
PostRaises ==
    /\ pc = "post"
    /\ outcome' = "post_exception"
    /\ except_RequestException
    /\ UNCHANGED <<update, replies, status, body, pos, full_response>>

\* a response with a status other than 200 and any body: logged with
\* response.text, whose read of the body may itself fail, and answered with
\* the fixed message
PostError ==
    /\ pc = "post"
    /\ \E s \in Statuses, b \in Bodies, readFails \in BOOLEAN :
        /\ is_error_status(s)
        /\ status' = s
        /\ body' = b
        /\ IF readFails THEN except_RequestException ELSE Return(MSG_HTTP_ERROR)
    /\ outcome' = "http_error"
    /\ UNCHANGED <<update, replies, pos, full_response>>

\* a 200 response with any body: full_response = "" and the loop begins
PostOK ==
    /\ pc = "post"
    /\ \E s \in Statuses, b \in Bodies :
        /\ ~is_error_status(s)
        /\ status' = s
        /\ body' = b
    /\ pc' = "stream"
    /\ full_response' = <<>>
    /\ UNCHANGED <<update, events, replies, pos, outcome, ai_response>>

\* the loop body for the value sanitize_stream yields for line l
loop_body(l) ==
    LET content == sanitize_line(l) IN
    IF ~truthy(content)
    THEN UNCHANGED <<pc, events, full_response, outcome, ai_response>>
    ELSE IF content.ty = "str"
         THEN /\ full_response' = accumulate(full_response, content)
              /\ UNCHANGED <<pc, events, outcome, ai_response>>
         ELSE /\ outcome' = "unexpected"
              /\ except_Exception
              /\ UNCHANGED full_response

\* a bug: the loop is left at the termination sentinel
StreamLine_break ==
    /\ pc = "stream"
    /\ pos < Len(body)
    /\ pos' = pos + 1
    /\ IF payload(body[pos + 1]).kind = "[DONE]"
       THEN /\ outcome' = "completed"
            /\ Return(final_text(full_response))
            /\ UNCHANGED full_response
       ELSE loop_body(body[pos + 1])
    /\ UNCHANGED <<update, replies, status, body>>

\* the next line of the body passes through sanitize_stream and the loop body
StreamLine ==
    /\ pc = "stream"
    /\ pos < Len(body)
    /\ pos' = pos + 1
    /\ loop_body(body[pos + 1])
    /\ UNCHANGED <<update, replies, status, body>>

\* the body is exhausted: the return after the loop
StreamEnd ==
    /\ pc = "stream"
    /\ pos = Len(body)
    /\ outcome' = "completed"
    /\ Return(final_text(full_response))
    /\ UNCHANGED <<update, replies, status, body, pos, full_response>>

\* the connection drops while the body is read: iter_lines raises a
\* RequestException, which leaves the generator and the loop and reaches the
\* handler around them
StreamDrop ==
    /\ pc = "stream"
    /\ outcome' = "stream_dropped"
    /\ except_RequestException
    /\ UNCHANGED <<update, replies, status, body, pos, full_response>>

\* await update.message.reply_text(ai_response)
Reply ==
    /\ pc = "returned"
    /\ pc' = "done"
    /\ replies' = replies + 1
    /\ events' = Append(events, Event("reply"))
    /\ UNCHANGED <<update, status, body, pos, full_response, outcome, ai_response>>

Next ==
    \/ \E c \in Chats : Dispatch(c)
    \/ SendTyping
    \/ CallAI
    \/ PostRaises
    \/ PostError
    \/ PostOK
    \/ StreamLine
    \/ StreamEnd
    \/ StreamDrop
    \/ Reply

Spec == Init /\ [][Next]_vars
\* ---- reference definitions for the properties ----
Returned == pc \in {"returned", "done"}

Chars == {"H", "e", " "}

Messages == {MSG_HTTP_ERROR, MSG_PLACEHOLDER, MSG_UNEXPECTED}

IsDelta(l) == l.prefix \in {"data:", ""} /\ l.kind = "str"

IsNonString(l) == l.prefix \in {"data:", ""} /\ l.kind = "num"

IsSentinel(l) == l.prefix \in {"data:", ""} /\ l.kind \in {"[DONE]", ""}

IsMalformed(l) ==
    \/ l.prefix \notin {"data:", ""}
    \/ l.kind \in {"notjson", "scalar", "emptychoices", "nocontent"}

RECURSIVE DeltaText(_)
DeltaText(b) ==
    IF b = <<>> THEN <<>>
    ELSE (IF IsDelta(Head(b)) THEN Head(b).text ELSE <<>>) \o DeltaText(Tail(b))

Trimmed(t) ==
    IF t = <<>> THEN <<"I couldn't generate a response.">> ELSE strip(t)

Expected(b) ==
    IF \E i \in 1..Len(b) : IsNonString(b[i])
    THEN <<"Sorry, something went wrong while processing your request.">>
    ELSE Trimmed(DeltaText(b))

RemoveAt(b, i) == SubSeq(b, 1, i - 1) \o SubSeq(b, i + 1, Len(b))

WellFormed(b) ==
    \A i \in 1..Len(b) :
        \/ b[i].prefix = "data:" /\ b[i].kind = "str"
        \/ i = Len(b) /\ b[i].prefix = "data:" /\ b[i].kind = "[DONE]"

\* C1 as stated: for a 200 response whose body is well-formed content lines
\* (and a closing data: [DONE]), the result is the concatenation of the
\* deltas, trimmed.
C1_Original ==
    (outcome = "completed" /\ WellFormed(body))
        => ai_response = strip(DeltaText(body))

\* C1 amended: for a 200 response whose body is well-formed content lines,
\* the result is the concatenation of the deltas in stream order, trimmed,
\* when that concatenation is not empty, and the placeholder when it is empty.
C1_Concatenation ==
    (outcome = "completed" /\ WellFormed(body))
        => ai_response = (IF DeltaText(body) = <<>>
                          THEN MSG_PLACEHOLDER
                          ELSE strip(DeltaText(body)))

C1_Witness ==
    /\ outcome = "completed"
    /\ WellFormed(body)
    /\ Len(body) = 3
    /\ body[1].text = <<"H">>
    /\ body[2].text = <<"e">>
    /\ body[3].kind = "[DONE]"
    /\ ai_response = <<"H", "e">>

\* C2 as stated: an exception of requests.post is caught and answered with a
\* fixed message that differs from the message for a non-200 status.
C2_Original ==
    outcome = "post_exception"
        => (Returned /\ ai_response = MSG_REQUEST_ERROR
                     /\ ai_response # MSG_HTTP_ERROR)

\* C2 amended: an exception of requests.post is caught and answered with the
\* fixed message "Sorry, I'm having trouble connecting to the AI service.",
\* the same message as for a non-200 status, and different from the message
\* for an unexpected exception.
C2_RequestError ==
    outcome = "post_exception"
        => /\ Returned
           /\ ai_response = <<"Sorry, I'm having trouble connecting to the AI service.">>
           /\ ai_response = MSG_HTTP_ERROR
           /\ ai_response # MSG_UNEXPECTED
           /\ pos = 0

C2_Witness == outcome = "post_exception" /\ pc = "done" /\ replies = 1

C4_NeverEmpty ==
    (status = HTTP_OK /\ outcome = "completed")
        => /\ ai_response # <<>>
           /\ ai_response = (IF strip(full_response) = <<>>
                             THEN MSG_PLACEHOLDER
                             ELSE strip(full_response))

\* C5: whatever the upstream call does, get_ai_response returns a text and
\* never raises, and handle_message sends exactly one reply after it.
C5_AlwaysReplies ==
    /\ pc # "crashed"
    /\ outcome # "none" => Returned
    /\ Returned => ai_response \in Seq(Chars) \cup Messages
    /\ replies = (IF pc = "done" THEN 1 ELSE 0)

C5_Witness == outcome = "unexpected" /\ pc = "done" /\ replies = 1

\* C6: a status other than 200 gives exactly the fixed connection message,
\* and no line of the body is ever consumed, whatever the body holds.
C6_Non200 ==
    (status # 0 /\ status # HTTP_OK)
        => /\ Returned
           /\ ai_response = <<"Sorry, I'm having trouble connecting to the AI service.">>
           /\ pos = 0
           /\ full_response = <<>>

C6_Witness == status = 404 /\ Len(body) = 3 /\ IsDelta(body[1]) /\ pc = "done"

\* C7: a line that is not JSON or lacks choices[0].delta.content adds nothing
\* and does not stop the accumulation: the text accumulated, and the result,
\* are those of the body without that line.
C7_MalformedSkipped ==
    \A i \in 1..pos :
        (IsMalformed(body[i]) /\ \A j \in 1..pos : ~IsNonString(body[j]))
            => /\ outcome \in {"none", "completed", "stream_dropped"}
               /\ full_response = DeltaText(RemoveAt(SubSeq(body, 1, pos), i))
               /\ outcome = "completed"
                    => ai_response = Trimmed(DeltaText(RemoveAt(body, i)))

C7_Witness ==
    /\ outcome = "completed"
    /\ Len(body) = 3
    /\ body[1].kind = "emptychoices"
    /\ body[2].prefix = "data:" /\ body[2].kind = "notjson"
    /\ IsDelta(body[3])
    /\ ai_response = <<"H">>

\* C8: a termination sentinel or a blank line at any position leaves the
\* result what it is for the body without that line; content after a
\* sentinel is still accumulated.
C8_SentinelNoEffect ==
    outcome \in {"completed", "unexpected"}
        => \A i \in 1..Len(body) :
             IsSentinel(body[i]) => ai_response = Expected(RemoveAt(body, i))

C8_Witness ==
    /\ outcome = "completed"
    /\ Len(body) = 3
    /\ body[1].kind = "[DONE]"
    /\ IsDelta(body[2])
    /\ body[3].kind = ""
    /\ ai_response = <<"H">>

\* C9: when a 200 stream ends and no line gave a non-empty content fragment,
\* the result is exactly "I couldn't generate a response.".
C9_Placeholder ==
    (outcome = "completed"
        /\ \A i \in 1..Len(body) : ~(IsDelta(body[i]) /\ body[i].text # <<>>))
        => ai_response = <<"I couldn't generate a response.">>

C9_Witness ==
    /\ outcome = "completed"
    /\ Len(body) = 3
    /\ body[1].kind = "nocontent"
    /\ IsDelta(body[2]) /\ body[2].text = <<>>
    /\ body[3].kind = "zero"
    /\ ai_response = MSG_PLACEHOLDER

\* C10: the events of a message are, in this order, the typing action to the
\* chat of the message, the start of the AI call, its return, and the reply
\* to the same chat.
C10_Order ==
    /\ Len(events) <= 4
    /\ \A i \in 1..Len(events) :
         events[i] = [ev |-> <<"typing", "ai_start", "ai_return", "reply">>[i],
                      chat |-> update]

C10_Witness == pc = "done" /\ Len(events) = 4 /\ events[4].ev = "reply"
====
